---------------------------- MODULE Spec2Model ----------------------------
(***************************************************************************)
(* Lenia stepping engine of src/components/LeniaSimulation.tsx: the        *)
(* compute shader (kernel, growth, integrate, clamp), the ping-pong pair   *)
(* of render targets, initField, loadSpecies, the leva controls and the    *)
(* per-frame callback.                                                     *)
(*                                                                         *)
(* Numbers are fixed point.  Cell values, mu, sigma and normalised radii   *)
(* count thousandths (Unit = 1.0); dt, kernelSigma, the ring weights and   *)
(* the kernel weights count hundredths (Cent = 1.0).  exp is tabulated in  *)
(* steps of 1/8 of its argument.                                           *)
(***************************************************************************)
EXTENDS Integers, Sequences, FiniteSets, Bags, TLC

\* ------------------------------------------------------------------ scales
Unit == 1000
Cent == 100

\* ------------------------------------------------------------------ bounds
\* Side of the square field (the program allocates 512 x 512).
resolution == 2

Min(a, b) == IF a < b THEN a ELSE b
Max(a, b) == IF a > b THEN a ELSE b
Abs(a) == IF a < 0 THEN -a ELSE a

\* The sum of the values of f, a function with values >= 0.
Sum(f) ==
  BagCardinality([x \in DOMAIN f |-> f[x] + 1]) - Cardinality(DOMAIN f)

\* ------------------------------------------------------------- exp, sqrt
\* ExpTable[q + 1] = exp(-q/8) in thousandths, rounded.
ExpTable ==
  <<
   1000, 882, 779, 687, 607, 535, 472, 417, 368, 325, 287, 253, 223,
   197, 174, 153, 135, 119, 105, 93, 82, 72, 64, 56, 50, 44,
   39, 34, 30, 27, 24, 21, 18, 16, 14, 13, 11, 10, 9,
   8, 7, 6, 5, 5, 4, 4, 3, 3, 2, 2, 2, 2,
   2, 1, 1, 1, 1, 1, 1, 1, 1, 0, 0, 0, 0
  >>

\* exp(-(num/den)) in thousandths, for num >= 0 and den > 0.
ExpNeg(num, den) ==
  LET q == (8 * num) \div den
  IN  IF q >= Len(ExpTable) THEN 0 ELSE ExpTable[q + 1]

\* The loop bounds of main: dy and dx run over -50..50.
MaxRadius == 50

\* floor(sqrt(d2)) for the squared distances of the loops of main.
IntSqrt ==
  [d2 \in 0..(2 * MaxRadius * MaxRadius) |->
     CHOOSE a \in 0..(2 * MaxRadius) : a * a <= d2 /\ d2 < (a + 1) * (a + 1)]

\* length(vec2(dx, dy)) in hundredths of a cell, from d2 = dx*dx + dy*dy.
Length ==
  [d2 \in 0..(2 * MaxRadius * MaxRadius) |->
     CHOOSE l \in (Cent * IntSqrt[d2])..(Cent * IntSqrt[d2] + Cent - 1) :
       l * l <= d2 * Cent * Cent /\ d2 * Cent * Cent < (l + 1) * (l + 1)]

\* ------------------------------------------------------------ the field
Coords == 0..(resolution - 1)
Cells == Coords \X Coords
ZeroField == [c \in Cells |-> 0]

\* ------------------------------------------------------- compute shader
\* bell(x, mu, sigma); x, mu and sigma in thousandths.
bell(x, mu, sigma) ==
  LET safeSigma == Max(sigma, 1)
      d == x - mu
  IN  ExpNeg(d * d, 2 * safeSigma * safeSigma)

\* One pass of the loop of kernel: what ring i adds to sum.
Ring(r, U, i) ==
  IF i >= U.uRingCount THEN 0
  ELSE LET safeKernelSigma == Max(U.uKernelSigma, 1)
           ringCenter == ((2 * i + 1) * Unit) \div (2 * U.uRingCount)
           d == r - ringCenter
       IN  (U.uBeta[i + 1]
              * ExpNeg(d * d, 200 * safeKernelSigma * safeKernelSigma))
           \div Unit

\* A faulty kernel: without the test r >= 1.0.
kernelNoCutoff(r, U) ==
  Ring(r, U, 0) + Ring(r, U, 1) + Ring(r, U, 2) + Ring(r, U, 3)

\* kernel(r); r in thousandths, the result in hundredths.
kernel(r, U) ==
  IF r >= Unit THEN 0
  ELSE Ring(r, U, 0) + Ring(r, U, 1) + Ring(r, U, 2) + Ring(r, U, 3)

\* A faulty growth: without the - 1.0.
growthUnshifted(u, U) == 2 * bell(u, U.uMu, U.uSigma)

\* growth(u); u in thousandths, the result in thousandths of [-1, 1].
growth(u, U) == 2 * bell(u, U.uMu, U.uSigma) - Unit

\* A faulty clamp: the value is passed through.
NoClamp(v, lo, hi) == v

clamp(v, lo, hi) == Min(Max(v, lo), hi)

\* int radius = int(min(uR, 50.0))
radius(U) == Min(U.uR, MaxRadius)

\* NaN, of which every comparison is false.
NaN == -2147483647

\* A texel the shader accepts: texVal >= 0.0 && texVal <= 1.0.
InRange(v) == v # NaN /\ v >= 0 /\ v <= Unit

\* A faulty sampling: the texture clamps to its edge instead of repeating.
WrapClamped(x, y, dx, dy) ==
  <<Max(0, Min(x + dx, resolution - 1)), Max(0, Min(y + dy, resolution - 1))>>

\* fract(vUv + offset * pixel): the cell the offset wraps to.
Wrap(x, y, dx, dy) == <<(x + dx) % resolution, (y + dy) % resolution>>

\* Whether the loops of main reach the kernel call for (dx, dy).
Sampled(dx, dy, U) ==
  /\ Abs(dy) <= radius(U)
  /\ Abs(dx) <= radius(U)
  /\ dx * dx + dy * dy <= U.uR * U.uR

\* A faulty k: the distance is normalised by the capped radius.
KernelAtCapped(dx, dy, U) ==
  kernel((Length[dx * dx + dy * dy] * 10) \div Max(radius(U), 1), U)

\* k of the loop body: kernel(dist / max(uR, 1.0)).
KernelAt(dx, dy, U) ==
  kernel((Length[dx * dx + dy * dy] * 10) \div Max(U.uR, 1), U)

\* What the pass of the loops for (dx, dy) adds to kernelSum: k if the pass
\* reaches the sums, nothing if it ends in a continue.
Contribution(dx, dy, U) ==
  IF Sampled(dx, dy, U) THEN KernelAt(dx, dy, U) ELSE 0

\* The loops of main visit every sampled offset once; the offsets that wrap
\* to the same texel are grouped.  OffsetsTo(a, rad): the dx (or dy) of
\* -rad..rad that wrap to column (row) a.
OffsetsTo(a, rad) == {d \in (-rad)..rad : d % resolution = a}

\* Texel t (1..resolution^2, row by row) relative to the fragment.
TexelColumn(t) == (t - 1) % resolution
TexelRow(t) == (t - 1) \div resolution

\* Weights(U)[t]: the total k of the sampled offsets that wrap to texel t.
Weights(U) ==
  [t \in 1..(resolution * resolution) |->
     Sum([o \in OffsetsTo(TexelColumn(t), radius(U))
                  \X OffsetsTo(TexelRow(t), radius(U)) |->
            IF Sampled(o[1], o[2], U) THEN KernelAt(o[1], o[2], U) ELSE 0])]
  \o <<>>

\* The texel that texel t relative to the fragment (x, y) is.
TexelOf(x, y, t) == Wrap(x, y, TexelColumn(t), TexelRow(t))

\* A faulty kernelSum: k is added for every texel, accepted or not.
KernelSumAll(field, x, y, W) == Sum([t \in DOMAIN W |-> W[t]])

\* A faulty u: 1.0 where kernelSum is not above the epsilon.
PotentialElseOne(field, x, y, W) ==
  LET valueSum == Sum([t \in DOMAIN W |->
                         LET texVal == field[TexelOf(x, y, t)]
                         IN  IF InRange(texVal) THEN texVal * W[t] ELSE 0])
      kernelSum == Sum([t \in DOMAIN W |->
                          LET texVal == field[TexelOf(x, y, t)]
                          IN  IF InRange(texVal) THEN W[t] ELSE 0])
  IN  IF kernelSum * 10 > 1 THEN valueSum \div kernelSum ELSE Unit

\* valueSum and kernelSum of main for the fragment (x, y): texVal * k and k,
\* added for the accepted texels only.
ValueSum(field, x, y, W) ==
  Sum([t \in DOMAIN W |->
         LET texVal == field[TexelOf(x, y, t)]
         IN  IF InRange(texVal) THEN texVal * W[t] ELSE 0])
KernelSum(field, x, y, W) ==
  Sum([t \in DOMAIN W |->
         LET texVal == field[TexelOf(x, y, t)]
         IN  IF InRange(texVal) THEN W[t] ELSE 0])

\* u of main for the fragment (x, y): kernelSum > 0.001 ? valueSum /
\* kernelSum : 0.0.
Potential(field, x, y, W) ==
  LET valueSum == ValueSum(field, x, y, W)
      kernelSum == KernelSum(field, x, y, W)
  IN  IF kernelSum * 10 > 1 THEN valueSum \div kernelSum ELSE 0

\* newState of main: clamp(current + uDt * growth(u), 0.0, 1.0).
Integrate(current, u, U) ==
  clamp(current + (U.uDt * growth(u, U)) \div Cent, 0, Unit)

\* A faulty main: an anomalous current texel is written back as it is.
mainUnprotected(field, x, y, U, W) ==
  IF InRange(field[<<x, y>>])
  THEN clamp(field[<<x, y>>]
               + (U.uDt * growth(Potential(field, x, y, W), U)) \div Cent,
             0, Unit)
  ELSE field[<<x, y>>]

\* main() for the fragment of cell (x, y): the new red channel.
main(field, x, y, U, W) ==
  LET u == Potential(field, x, y, W)
      current == IF InRange(field[<<x, y>>]) THEN field[<<x, y>>] ELSE 0
  IN  Integrate(current, u, U)

\* One render of the compute scene with the kernel weights W of U: every
\* fragment of the target.
StepWith(field, U, W) == [c \in Cells |-> main(field, c[1], c[2], U, W)]

\* main with the kernel weights of U computed on the spot.
StepOf(field, U) == StepWith(field, U, Weights(U))

\* ------------------------------------------------------ species catalog
\* species of data/species.ts: name, R, mu, sigma, kernelSigma, beta.
species ==
  << [name |-> "Orbium", R |-> 13, mu |-> 150, sigma |-> 15,
      kernelSigma |-> 15, beta |-> <<100>>],
     [name |-> "Orbium bicaudatus", R |-> 13, mu |-> 156, sigma |-> 16,
      kernelSigma |-> 15, beta |-> <<100, 50>>],
     [name |-> "Gyrorbium", R |-> 13, mu |-> 140, sigma |-> 14,
      kernelSigma |-> 15, beta |-> <<100>>],
     [name |-> "Scutium", R |-> 13, mu |-> 210, sigma |-> 22,
      kernelSigma |-> 15, beta |-> <<100>>],
     [name |-> "Helix", R |-> 15, mu |-> 180, sigma |-> 20,
      kernelSigma |-> 12, beta |-> <<100, 60, 30>>],
     [name |-> "Hydrogeminium", R |-> 10, mu |-> 270, sigma |-> 25,
      kernelSigma |-> 18, beta |-> <<100, 40>>],
     [name |-> "Pentafolium", R |-> 12, mu |-> 190, sigma |-> 19,
      kernelSigma |-> 14, beta |-> <<100, 30, 10>>],
     [name |-> "Paramecia", R |-> 18, mu |-> 120, sigma |-> 14,
      kernelSigma |-> 15, beta |-> <<100>>],
     [name |-> "SmoothLife", R |-> 21, mu |-> 190, sigma |-> 33,
      kernelSigma |-> 15, beta |-> <<100, 0>>],
     [name |-> "Primordial Soup", R |-> 10, mu |-> 350, sigma |-> 70,
      kernelSigma |-> 20, beta |-> <<100, 50, 25>>],
     [name |-> "Microbia", R |-> 7, mu |-> 220, sigma |-> 18,
      kernelSigma |-> 12, beta |-> <<100>>],
     [name |-> "Oceania", R |-> 25, mu |-> 110, sigma |-> 12,
      kernelSigma |-> 18, beta |-> <<100, 70, 40>>],
     [name |-> "Luminara", R |-> 14, mu |-> 170, sigma |-> 18,
      kernelSigma |-> 14, beta |-> <<100, 30>>] >>

SpeciesNames == {species[k].name : k \in DOMAIN species}

\* A name the preset list does not hold.
UnknownName == "Nemo"

\* species.find(s => s.name === name): the index of the first match, or 0
\* for undefined.
Find(list, name) ==
  IF \E k \in DOMAIN list : list[k].name = name
  THEN CHOOSE k \in DOMAIN list :
         /\ list[k].name = name
         /\ \A j \in 1..(k - 1) : list[j].name # name
  ELSE 0

\* -------------------------------------------------------------- controls
\* The min and max of the numeric controls of useControls.
Controls ==
  [speed |-> [min |-> 1, max |-> 10],
   dt |-> [min |-> 1, max |-> 50],
   R |-> [min |-> 5, max |-> 25],
   kernelSigma |-> [min |-> 8, max |-> 30],
   rings |-> [min |-> 1, max |-> 4],
   beta1 |-> [min |-> 0, max |-> 100],
   beta2 |-> [min |-> 0, max |-> 100],
   beta3 |-> [min |-> 0, max |-> 100],
   beta4 |-> [min |-> 0, max |-> 100],
   mu |-> [min |-> 10, max |-> 500],
   sigma |-> [min |-> 8, max |-> 100]]

\* The value the preset control starts with.
DefaultPreset == "Orbium"

\* A faulty control: it keeps any input as given.
Unsanitized(key, v) == v

\* The value a numeric control keeps for an input: the panel clamps it to
\* the control's min and max.
Sanitize(key, v) == Max(Controls[key].min, Min(v, Controls[key].max))

\* The values of useControls before any change.
DefaultParams ==
  [running |-> TRUE, speed |-> 1, dt |-> 10,
   R |-> 13, kernelSigma |-> 15, rings |-> 1,
   beta1 |-> 100, beta2 |-> 0, beta3 |-> 0, beta4 |-> 0,
   mu |-> 150, sigma |-> 15]

\* The uniforms of computeMaterial at construction.
DefaultUniforms ==
  [uState |-> "null", uDt |-> 10, uR |-> 13, uMu |-> 150, uSigma |-> 15,
   uKernelSigma |-> 15, uBeta |-> <<100, 0, 0, 0>>, uRingCount |-> 1]

\* beta?.[i] ?? dflt, for the 0-based index i.
BetaAt(spec, i, dflt) == IF i < Len(spec.beta) THEN spec.beta[i + 1] ELSE dflt

\* A faulty loadSpecies: beta2, beta3 and beta4 are not handed to setParams.
PresetValuesFirstRing(spec) ==
  [R |-> spec.R, mu |-> spec.mu, sigma |-> spec.sigma,
   kernelSigma |-> IF spec.kernelSigma # 0 THEN spec.kernelSigma ELSE 15,
   rings |-> IF Len(spec.beta) # 0 THEN Len(spec.beta) ELSE 1,
   beta1 |-> BetaAt(spec, 0, 100)]

\* The object loadSpecies hands to setParams.
PresetValues(spec) ==
  [R |-> spec.R, mu |-> spec.mu, sigma |-> spec.sigma,
   kernelSigma |-> IF spec.kernelSigma # 0 THEN spec.kernelSigma ELSE 15,
   rings |-> IF Len(spec.beta) # 0 THEN Len(spec.beta) ELSE 1,
   beta1 |-> BetaAt(spec, 0, 100), beta2 |-> BetaAt(spec, 1, 0),
   beta3 |-> BetaAt(spec, 2, 0), beta4 |-> BetaAt(spec, 3, 0)]

\* setParams(values): every named control takes its sanitized value.
SetParamsTo(old, values) ==
  [key \in DOMAIN old |->
     IF key \in DOMAIN values THEN Sanitize(key, values[key]) ELSE old[key]]

\* Faulty uniform updates: uR and uDt are left as they are.
UpdateUniformsPartial(U, P) ==
  [U EXCEPT !.uMu = P.mu, !.uSigma = P.sigma,
            !.uKernelSigma = P.kernelSigma,
            !.uBeta = <<P.beta1, P.beta2, P.beta3, P.beta4>>,
            !.uRingCount = P.rings]

\* The uniform updates at the top of the frame callback.
UpdateUniforms(U, P) ==
  [U EXCEPT !.uDt = P.dt, !.uR = P.R, !.uMu = P.mu, !.uSigma = P.sigma,
            !.uKernelSigma = P.kernelSigma,
            !.uBeta = <<P.beta1, P.beta2, P.beta3, P.beta4>>,
            !.uRingCount = P.rings]

\* dt, R, mu, sigma, kernelSigma, beta and the ring count as the shader
\* reads them.
TickUniforms(U) ==
  <<U.uDt, U.uR, U.uMu, U.uSigma, U.uKernelSigma, U.uBeta, U.uRingCount>>

\* The uniforms kernel() and the loops of main read.
KernelUniforms(U) == <<U.uR, U.uKernelSigma, U.uBeta, U.uRingCount>>

\* ------------------------------------------------------------ initField
FullResolution == 512
SeedR == 20
RandomR == 60
\* A radius of the 512 x 512 field scaled to the model's field, at least 1.
Scaled(r) == Max(1, (r * resolution) \div FullResolution)

\* (2 * (x - cx))^2 + (2 * (y - cy))^2 with cx = cy = resolution / 2.
Dist2x4(c) ==
  (2 * c[1] - resolution) * (2 * c[1] - resolution)
  + (2 * c[2] - resolution) * (2 * c[2] - resolution)

\* The cells with d < r.
Disc(r) == {c \in Cells : Dist2x4(c) < 4 * r * r}

\* Math.random(): the least and the greatest value of [0, 1), thousandths.
RandomSamples == {0, 999}

\* The explicit patterns of the catalog, scaled: square, side PatternSide,
\* every cell in [0, 1].
PatternSide == Scaled(64)
PatternSamples == {500, 1000}
CatalogPatterns ==
  [1..PatternSide -> [1..PatternSide -> PatternSamples]]

\* The red channel of data after the branch of initField for mode.
SeedData ==
  [c \in Cells |->
     IF c \in Disc(Scaled(SeedR))
     THEN (ExpNeg(10 * Dist2x4(c), 12 * Scaled(SeedR) * Scaled(SeedR)) * 8)
          \div 10
     ELSE 0]

RandomData(rnd) ==
  [c \in Cells |->
     IF c \in Disc(Scaled(RandomR)) THEN rnd[c] \div 2 + 250 ELSE 0]

\* A faulty stamping: the pattern is put at the field's corner, ox = oy = 0.
PatternDataUncentred(pat) ==
  [c \in Cells |->
     IF c[1] < Len(pat[1]) /\ c[2] < Len(pat)
     THEN IF c[1] < Len(pat[c[2] + 1]) THEN pat[c[2] + 1][c[1] + 1] ELSE NaN
     ELSE 0]

PatternData(pat) ==
  LET h == Len(pat)
      w == Len(pat[1])
      ox == (resolution - w) \div 2
      oy == (resolution - h) \div 2
  IN  [c \in Cells |->
         LET px == c[1] - ox
             py == c[2] - oy
         IN  IF px >= 0 /\ px < w /\ py >= 0 /\ py < h
             THEN IF px < Len(pat[py + 1])
                  THEN pat[py + 1][px + 1]
                  ELSE NaN
             ELSE 0]

\* The spec argument of initField as far as it is read: whether it is
\* given with a pattern, and the pattern.
NoSpec == [hasPattern |-> FALSE, pattern |-> <<>>]
WithPattern(pat) == [hasPattern |-> TRUE, pattern |-> pat]

\* initField(mode, spec) ends in a TypeError: p[0].length of a pattern with
\* no rows.
Throws(mode, spec) ==
  mode = "species" /\ spec.hasPattern /\ Len(spec.pattern) = 0

\* A faulty initField: without the test mode !== 'clear' the last branch
\* fills the blob for 'clear' too.
InitDataNoClear(mode, spec, rnd) ==
  IF mode = "seed" THEN SeedData
  ELSE IF mode = "species" /\ spec.hasPattern THEN PatternData(spec.pattern)
  ELSE RandomData(rnd)

\* A faulty initField: the last branch is taken for 'random' only, so that
\* 'species' without a pattern and the modes not known leave data at 0.
InitDataRandomOnly(mode, spec, rnd) ==
  IF mode = "seed" THEN SeedData
  ELSE IF mode = "species" /\ spec.hasPattern THEN PatternData(spec.pattern)
  ELSE IF mode = "random" THEN RandomData(rnd)
  ELSE ZeroField

\* data after the branches of initField(mode, spec), rnd being the random
\* numbers drawn.
InitData(mode, spec, rnd) ==
  IF mode = "seed" THEN SeedData
  ELSE IF mode = "species" /\ spec.hasPattern THEN PatternData(spec.pattern)
  ELSE IF mode # "clear" THEN RandomData(rnd)
  ELSE ZeroField

\* The draws tried: every cell of the blob the same sample, and the two
\* samples in a chequered pattern.
RandomDraws ==
  {[c \in Disc(Scaled(RandomR)) |-> v] : v \in RandomSamples}
  \cup {[c \in Disc(Scaled(RandomR)) |->
           IF (c[1] + c[2]) % 2 = 0 THEN 0 ELSE 999]}
NoDraws == [c \in Disc(Scaled(RandomR)) |-> 0]

\* ---------------------------------------------------------------- state
\* More bounds: the ticks run after an initialisation (and the greatest
\* speed set), and the control changes of a run.
MaxTicks == 2
MaxChanges == 1

\* The two WebGLRenderTargets allocated at construction.
Buffers == {"A", "B"}

VARIABLES
  buf,            \* the red channel of each render target
  targets,        \* targets.read and targets.write
  params,         \* the values of the controls
  uniforms,       \* computeMaterial.uniforms
  weights,        \* the kernel weights of the uniforms (Weights(uniforms))
  shown,          \* renderMaterial.uniforms.uState
  isInitialized,
  mounted,        \* the setup effect has run
  pc, i,          \* the frame callback: its position and its loop counter
  initPc, data,   \* initField: its position and its data array
  timers,         \* setTimeout callbacks of loadSpecies not yet run
  lookup,         \* what species.find returned to the last loadSpecies
  ticks, changes, \* counters for the bounds
  fresh,          \* the render targets that hold the newest field
  frameStart,     \* the field of targets.read when the frame began
  catalog,        \* the species array of data/species.ts
  initMode,       \* the mode of the last initField
  origin,         \* the data the last initField rendered
  thrown,         \* a callback has ended in an exception
  usedU,          \* the uniform values the ticks since initField ran with
  probe,          \* a shader function applied on its own: input and result
  disposed        \* the cleanup of the setup effect has disposed the targets

vars ==
  <<buf, targets, params, uniforms, weights, shown, isInitialized, mounted,
    pc, i, initPc, data, timers, lookup, ticks, changes, fresh, frameStart,
    catalog, initMode, origin, thrown, usedU, probe, disposed>>

frameVars == <<pc, i, frameStart>>
initVars == <<initPc, data>>
fieldVars == <<buf, targets, fresh>>
callVars == <<initMode, origin, thrown>>

\* lookup before loadSpecies is first called.
NoLookup == -1

\* probe while no function is applied on its own.
NoProbe ==
  [fn |-> "none", U |-> DefaultUniforms, x |-> 0, y |-> 0, out |-> 0,
   preset |-> species[1], old |-> DefaultParams, new |-> DefaultParams,
   done |-> FALSE]

\* The component as constructed.
Constructed ==
  /\ buf = [b \in Buffers |-> ZeroField]
  /\ targets = [read |-> "A", write |-> "B"]
  /\ params = DefaultParams
  /\ uniforms = DefaultUniforms
  /\ weights = Weights(DefaultUniforms)
  /\ shown = "null"
  /\ isInitialized = FALSE
  /\ mounted = FALSE
  /\ pc = "idle" /\ i = 0
  /\ initPc = "idle" /\ data = ZeroField
  /\ timers = 0
  /\ lookup = NoLookup
  /\ ticks = 0 /\ changes = 0
  /\ fresh = Buffers
  /\ frameStart = ZeroField
  /\ catalog = species
  /\ initMode = "none"
  /\ origin = ZeroField
  /\ thrown = FALSE
  /\ usedU = {}
  /\ disposed = FALSE

Init == Constructed /\ probe = NoProbe

\* No callback is running: the next one may be dispatched.
Idle == pc = "idle" /\ initPc = "idle"

\* ------------------------------------------------------------ initField
\* initField(mode, spec) up to the first render: data is filled and
\* rendered into targets.read.
initField(mode, spec, rnd) ==
  IF Throws(mode, spec)
  THEN /\ thrown' = TRUE
       /\ UNCHANGED <<data, buf, fresh, initPc, ticks, initMode, origin,
                      usedU>>
  ELSE /\ data' = InitData(mode, spec, rnd)
       /\ buf' = [buf EXCEPT ![targets.read] = data']
       /\ fresh' = {targets.read}
       /\ initPc' = "write"
       /\ ticks' = 0
       /\ initMode' = mode
       /\ origin' = data'
       /\ usedU' = {}
       /\ UNCHANGED thrown

\* A faulty end of initField: targets.write is not rendered.
InitRenderWriteMissing ==
  /\ initPc = "write"
  /\ isInitialized' = TRUE
  /\ initPc' = "idle"
  /\ data' = ZeroField
  /\ UNCHANGED <<fieldVars, params, uniforms, weights, shown, mounted, pc, i,
                 timers, lookup, ticks, changes, frameStart,
                 catalog, probe, disposed, callVars, usedU>>

\* gl.setRenderTarget(targets.write); gl.render(scene, cam); the disposals
\* and setIsInitialized(true).
InitRenderWrite ==
  /\ initPc = "write"
  /\ buf' = [buf EXCEPT ![targets.write] = data]
  /\ fresh' = fresh \cup {targets.write}
  /\ isInitialized' = TRUE
  /\ initPc' = "idle"
  /\ data' = ZeroField
  /\ UNCHANGED <<targets, params, uniforms, weights, shown, mounted, pc, i,
                 timers, lookup, ticks, changes, frameStart,
                 catalog, probe, disposed, callVars, usedU>>

\* The setup effect: initField('random').
Mount ==
  /\ Idle /\ ~mounted
  /\ mounted' = TRUE
  /\ \E rnd \in RandomDraws : initField("random", NoSpec, rnd)
  /\ UNCHANGED <<targets, params, uniforms, weights, shown, isInitialized,
                 frameVars, timers, lookup, changes, catalog, probe, disposed>>

\* The cleanup of the setup effect, run when the component is unmounted:
\* both targets are disposed.  The frame callback and the controls are gone
\* with the component; a timer of loadSpecies that is pending stays.
Unmount ==
  /\ Idle /\ mounted /\ ~disposed
  /\ disposed' = TRUE
  /\ UNCHANGED <<fieldVars, params, uniforms, weights, shown, isInitialized,
                 mounted, frameVars, initVars, timers, lookup, ticks, changes,
                 catalog, callVars, usedU, probe>>

\* The buttons reset, clear and seed.
Button(mode) ==
  /\ Idle /\ mounted /\ ~disposed
  /\ \E rnd \in (IF mode = "random" THEN RandomDraws ELSE {NoDraws}) :
       initField(mode, NoSpec, rnd)
  /\ UNCHANGED <<targets, params, uniforms, weights, shown, isInitialized,
                 mounted, frameVars, timers, lookup, changes, catalog, probe, disposed>>

\* initField('species', spec) for a spec with the pattern pat.
InitSpeciesWith(pat) ==
  /\ Idle /\ mounted /\ ~disposed
  /\ initField("species", WithPattern(pat), NoDraws)
  /\ UNCHANGED <<targets, params, uniforms, weights, shown, isInitialized,
                 mounted, frameVars, timers, lookup, changes, catalog, probe, disposed>>

\* initField('species', spec) for a preset with its pattern.
InitSpecies == \E pat \in CatalogPatterns : InitSpeciesWith(pat)

\* A faulty timer callback: it runs in the middle of a frame callback too.
TimerAnytime ==
  /\ initPc = "idle" /\ timers > 0
  /\ timers' = timers - 1
  /\ \E rnd \in RandomDraws : initField("random", NoSpec, rnd)
  /\ UNCHANGED <<targets, params, uniforms, weights, shown, isInitialized,
                 mounted, frameVars, lookup, changes, catalog, probe, disposed>>

\* A faulty callback: it stamps a pattern, initField('species', spec), as
\* an earlier revision did.
TimerPattern ==
  /\ Idle /\ timers > 0
  /\ timers' = timers - 1
  /\ \E pat \in CatalogPatterns :
       initField("species", WithPattern(pat), NoDraws)
  /\ UNCHANGED <<targets, params, uniforms, weights, shown, isInitialized,
                 mounted, frameVars, lookup, changes, catalog, probe, disposed>>

\* A faulty callback: it returns without calling initField.
TimerNoInit ==
  /\ Idle /\ timers > 0
  /\ timers' = timers - 1
  /\ UNCHANGED <<fieldVars, params, uniforms, weights, shown, isInitialized,
                 mounted, frameVars, initVars, lookup, ticks, changes,
                 catalog, callVars, usedU, probe, disposed>>

\* The callback loadSpecies hands to setTimeout: initField('random').
Timer ==
  /\ Idle /\ timers > 0
  /\ timers' = timers - 1
  /\ \E rnd \in RandomDraws : initField("random", NoSpec, rnd)
  /\ UNCHANGED <<targets, params, uniforms, weights, shown, isInitialized,
                 mounted, frameVars, lookup, changes, catalog, probe, disposed>>

\* ------------------------------------------------------------- controls
\* A faulty loadSpecies: a name not found falls back to the first preset.
loadSpeciesUnchecked(name) ==
  /\ lookup' = Find(catalog, name)
  /\ params' =
       SetParamsTo(params, PresetValues(catalog[Max(Find(catalog, name), 1)]))
  /\ timers' = timers + 1

\* loadSpecies(name)
loadSpecies(name) ==
  /\ lookup' = Find(catalog, name)
  /\ IF Find(catalog, name) = 0
     THEN UNCHANGED <<params, timers>>
     ELSE /\ params' =
            SetParamsTo(params, PresetValues(catalog[Find(catalog, name)]))
          /\ timers' = timers + 1

\* The names loadSpecies is called with: the default preset, a preset with
\* three rings, one with two rings and a wide growth, the preset of least
\* radius (R = 7), the preset of greatest radius, and a name the catalog
\* does not hold.
LoadNames ==
  {"Orbium", "Helix", "Hydrogeminium", "Microbia", "Oceania", UnknownName}

\* A faulty preset control: the preset loaded is taken out of the list.
LoadSpeciesOfSplicing(name) ==
  /\ Idle /\ mounted /\ ~disposed
  /\ changes < MaxChanges
  /\ changes' = changes + 1
  /\ loadSpecies(name)
  /\ catalog' = SelectSeq(catalog, LAMBDA s : s.name # name)
  /\ UNCHANGED <<fieldVars, uniforms, weights, shown, isInitialized, mounted,
                 frameVars, initVars, ticks, callVars, usedU, probe, disposed>>

\* The preset control: onChange calls loadSpecies.
LoadSpeciesOf(name) ==
  /\ Idle /\ mounted /\ ~disposed
  /\ changes < MaxChanges
  /\ changes' = changes + 1
  /\ loadSpecies(name)
  /\ UNCHANGED <<fieldVars, uniforms, weights, shown, isInitialized, mounted,
                 frameVars, initVars, ticks, catalog, probe, disposed, callVars, usedU>>

LoadSpecies == \E name \in LoadNames : LoadSpeciesOf(name)

\* The inputs tried on the numeric controls: the speeds, the greatest time
\* step, and 0 for the radius, the widths and the ring count.
Overrides ==
  {<<"speed", v>> : v \in 1..MaxTicks}
  \cup {<<"dt", 50>>, <<"R", 0>>, <<"sigma", 0>>, <<"kernelSigma", 0>>,
        <<"rings", 0>>, <<"mu", 0>>}

\* A numeric control is set from the panel.
SetParamOf(key, v) ==
  /\ Idle /\ mounted /\ ~disposed
  /\ changes < MaxChanges
  /\ changes' = changes + 1
  /\ params' = [params EXCEPT ![key] = Sanitize(key, v)]
  /\ UNCHANGED <<fieldVars, uniforms, weights, shown, isInitialized, mounted,
                 frameVars, initVars, timers, lookup, ticks,
                 catalog, probe, disposed, callVars, usedU>>

SetParam == \E o \in Overrides : SetParamOf(o[1], o[2])

\* The Running checkbox.
SetRunning ==
  /\ Idle /\ mounted /\ ~disposed
  /\ changes < MaxChanges
  /\ changes' = changes + 1
  /\ params' = [params EXCEPT !.running = ~params.running]
  /\ UNCHANGED <<fieldVars, uniforms, weights, shown, isInitialized, mounted,
                 frameVars, initVars, timers, lookup, ticks,
                 catalog, probe, disposed, callVars, usedU>>

\* --------------------------------------------------------------- useFrame
\* A faulty frame callback: the loop runs whether running is set or not.
FrameBeginAlways ==
  /\ Idle /\ ~disposed
  /\ isInitialized
  /\ ticks + params.speed <= MaxTicks
  /\ uniforms' = UpdateUniforms(uniforms, params)
  /\ weights' = IF KernelUniforms(uniforms') = KernelUniforms(uniforms)
                THEN weights
                ELSE Weights(uniforms')
  /\ i' = 0
  /\ frameStart' = buf[targets.read]
  /\ pc' = "render"
  /\ UNCHANGED <<fieldVars, params, shown, isInitialized, mounted, initVars,
                 timers, lookup, ticks, changes, catalog, probe, disposed, callVars, usedU>>

\* A faulty frame callback: the test of isInitialized is missing.
FrameBeginUnready ==
  /\ Idle /\ ~disposed
  /\ params.running => ticks + params.speed <= MaxTicks
  /\ uniforms' = UpdateUniforms(uniforms, params)
  /\ weights' = IF KernelUniforms(uniforms') = KernelUniforms(uniforms)
                THEN weights
                ELSE Weights(uniforms')
  /\ i' = 0
  /\ frameStart' = buf[targets.read]
  /\ pc' = IF params.running /\ 0 < params.speed THEN "render" ELSE "display"
  /\ UNCHANGED <<fieldVars, params, shown, isInitialized, mounted, initVars,
                 timers, lookup, ticks, changes, catalog, probe, disposed, callVars, usedU>>

\* A faulty frame callback: it returns while a timer of loadSpecies is
\* pending.
FrameBeginSuspended ==
  /\ Idle /\ ~disposed
  /\ isInitialized
  /\ timers = 0
  /\ params.running => ticks + params.speed <= MaxTicks
  /\ uniforms' = UpdateUniforms(uniforms, params)
  /\ weights' = IF KernelUniforms(uniforms') = KernelUniforms(uniforms)
                THEN weights
                ELSE Weights(uniforms')
  /\ i' = 0
  /\ frameStart' = buf[targets.read]
  /\ pc' = IF params.running /\ 0 < params.speed THEN "render" ELSE "display"
  /\ UNCHANGED <<fieldVars, params, shown, isInitialized, mounted, initVars,
                 timers, lookup, ticks, changes, catalog, probe, disposed, callVars, usedU>>

\* The frame callback up to the loop: the guard and the uniform updates.
FrameBegin ==
  /\ Idle /\ ~disposed
  /\ isInitialized
  /\ params.running => ticks + params.speed <= MaxTicks
  /\ uniforms' = UpdateUniforms(uniforms, params)
  /\ weights' = IF KernelUniforms(uniforms') = KernelUniforms(uniforms)
                THEN weights
                ELSE Weights(uniforms')
  /\ i' = 0
  /\ frameStart' = buf[targets.read]
  /\ pc' = IF params.running /\ 0 < params.speed THEN "render" ELSE "display"
  /\ UNCHANGED <<fieldVars, params, shown, isInitialized, mounted, initVars,
                 timers, lookup, ticks, changes, catalog, probe, disposed, callVars, usedU>>

\* The frame callback while isInitialized is false: it returns at once.
FrameSkip ==
  /\ Idle /\ ~disposed
  /\ ~isInitialized
  /\ UNCHANGED vars

\* A faulty render: uState is left on the target that is rendered into, so
\* the tick reads what an earlier tick left there.
FrameRenderStale ==
  /\ pc = "render"
  /\ uniforms' = [uniforms EXCEPT !.uState = targets.write]
  /\ buf' = [buf EXCEPT ![targets.write] =
               StepWith(buf[targets.write], uniforms', weights)]
  /\ fresh' = {targets.write}
  /\ ticks' = ticks + 1
  /\ usedU' = usedU \cup {TickUniforms(uniforms')}
  /\ pc' = "swap"
  /\ UNCHANGED <<targets, params, weights, shown, isInitialized, mounted, i,
                 initVars, timers, lookup, changes, frameStart,
                 catalog, probe, disposed, callVars>>

\* uState = targets.read.texture; render the compute scene into
\* targets.write.
FrameRender ==
  /\ pc = "render"
  /\ uniforms' = [uniforms EXCEPT !.uState = targets.read]
  /\ buf' = [buf EXCEPT ![targets.write] =
               StepWith(buf[targets.read], uniforms', weights)]
  /\ fresh' = {targets.write}
  /\ ticks' = ticks + 1
  /\ usedU' = usedU \cup {TickUniforms(uniforms')}
  /\ pc' = "swap"
  /\ UNCHANGED <<targets, params, weights, shown, isInitialized, mounted, i,
                 initVars, timers, lookup, changes, frameStart,
                 catalog, probe, disposed, callVars>>

\* Faulty swaps: without tmp both roles end on one target; without the swap
\* the roles stay; with <= in the loop test one more pass is made.
FrameSwapAliased ==
  /\ pc = "swap"
  /\ targets' = [read |-> targets.write, write |-> targets.write]
  /\ i' = i + 1
  /\ pc' = IF i + 1 < params.speed THEN "render" ELSE "display"
  /\ UNCHANGED <<buf, fresh, params, uniforms, weights, shown, isInitialized,
                 mounted, initVars, timers, lookup, ticks, changes, frameStart,
                 catalog, probe, disposed, callVars, usedU>>

FrameSwapSkipped ==
  /\ pc = "swap"
  /\ i' = i + 1
  /\ pc' = IF i + 1 < params.speed THEN "render" ELSE "display"
  /\ UNCHANGED <<fieldVars, params, uniforms, weights, shown, isInitialized,
                 mounted, initVars, timers, lookup, ticks, changes, frameStart,
                 catalog, probe, disposed, callVars, usedU>>

FrameSwapOneMore ==
  /\ pc = "swap"
  /\ targets' = [read |-> targets.write, write |-> targets.read]
  /\ i' = i + 1
  /\ pc' = IF i + 1 <= params.speed THEN "render" ELSE "display"
  /\ UNCHANGED <<buf, fresh, params, uniforms, weights, shown, isInitialized,
                 mounted, initVars, timers, lookup, ticks, changes, frameStart,
                 catalog, probe, disposed, callVars, usedU>>

\* The swap of targets.read and targets.write, i++ and the loop test.
FrameSwap ==
  /\ pc = "swap"
  /\ targets' = [read |-> targets.write, write |-> targets.read]
  /\ i' = i + 1
  /\ pc' = IF i + 1 < params.speed THEN "render" ELSE "display"
  /\ UNCHANGED <<buf, fresh, params, uniforms, weights, shown, isInitialized,
                 mounted, initVars, timers, lookup, ticks, changes, frameStart,
                 catalog, probe, disposed, callVars, usedU>>

\* A faulty display update: the presentation is given the write target.
FrameDisplayWrite ==
  /\ pc = "display"
  /\ shown' = targets.write
  /\ pc' = "idle"
  /\ i' = 0
  /\ frameStart' = ZeroField
  /\ UNCHANGED <<fieldVars, params, uniforms, weights, isInitialized, mounted,
                 initVars, timers, lookup, ticks, changes,
                 catalog, probe, disposed, callVars, usedU>>

\* The display update that ends the frame callback.
FrameDisplay ==
  /\ pc = "display"
  /\ shown' = targets.read
  /\ pc' = "idle"
  /\ i' = 0
  /\ frameStart' = ZeroField
  /\ UNCHANGED <<fieldVars, params, uniforms, weights, isInitialized, mounted,
                 initVars, timers, lookup, ticks, changes,
                 catalog, probe, disposed, callVars, usedU>>

Next ==
  \/ Mount
  \/ Unmount
  \/ \E mode \in {"random", "clear", "seed"} : Button(mode)
  \/ InitSpecies
  \/ Timer
  \/ InitRenderWrite
  \/ LoadSpecies
  \/ SetParam
  \/ SetRunning
  \/ FrameBegin
  \/ FrameSkip
  \/ FrameRender
  \/ FrameSwap
  \/ FrameDisplay

Spec == Init /\ [][Next]_vars

\* The event loop runs every callback it has started to its end, and runs
\* a timer callback that is due once no other callback is running.
SpecFair ==
  /\ Spec
  /\ WF_vars(InitRenderWrite)
  /\ WF_vars(FrameRender)
  /\ WF_vars(FrameSwap)
  /\ WF_vars(FrameDisplay)
  /\ SF_vars(Timer)

\* ------------------------------------------- the shader functions alone
\* A call of a shader function with the uniforms U and the arguments x, y,
\* not yet made.
Call(fn, U, x, y) ==
  [NoProbe EXCEPT !.fn = fn, !.U = U, !.x = x, !.y = y]

\* kernel(r) for ring counts 1..4, ring weights below, at and above 0,
\* kernelSigma below its floor, at the controls' bounds and at the default,
\* and normalised radii from 0 to beyond 1.
RingWeightSamples == {-50, 0, 100}
KernelSigmaSamples == {0, 8, 15, 30}
RadiusSamples ==
  {0, 125, 250, 375, 500, 625, 750, 875, 999, 1000, 1001, 1500}
KernelCalls ==
  {Call("kernel",
        [DefaultUniforms EXCEPT !.uRingCount = n, !.uBeta = b,
                                !.uKernelSigma = ks],
        r, 0) :
     n \in 1..4, b \in [1..4 -> RingWeightSamples],
     ks \in KernelSigmaSamples, r \in RadiusSamples}

\* growth(u) for mu and sigma at the controls' bounds, at the defaults and
\* at 0, and u inside and outside [0, 1] and at mu.
MuSamples == {0, 10, 150, 500}
SigmaSamples == {0, 8, 15, 100}
PotentialSamples == {-500, 0, 10, 140, 150, 160, 500, 1000, 2000}
GrowthCalls ==
  {Call("growth", [DefaultUniforms EXCEPT !.uMu = mu, !.uSigma = sigma],
        u, 0) :
     mu \in MuSamples, sigma \in SigmaSamples, u \in PotentialSamples}

\* The integration step for dt at the control's bounds and at the default,
\* current values over [0, 1] and potentials near and far from mu.
DtSamples == {1, 10, 50}
ValueSamples == {0, 5, 90, 500, 950, 1000}
IntegrateCalls ==
  {Call("integrate",
        [DefaultUniforms EXCEPT !.uDt = dt, !.uMu = mu, !.uSigma = sigma],
        current, u) :
     dt \in DtSamples, mu \in {10, 150}, sigma \in {8, 15, 100},
     current \in ValueSamples, u \in {0, 140, 150, 160, 1000}}

\* The pass of the loops of main for an offset, for radii from 1 to beyond
\* the cap of 50 and offsets over the range of the loops.
RadiusInputs == {1, 5, 13, 25, 49, 50, 51, 60, 80}
OffsetSamples ==
  {-50, -49, -36, -13, -5, -1, 0, 1, 3, 4, 5, 12, 13, 14, 25, 30, 40, 48,
   49, 50}
PassCalls ==
  {Call("pass", [DefaultUniforms EXCEPT !.uR = R], dx, dy) :
     R \in RadiusInputs, dx \in OffsetSamples, dy \in OffsetSamples}

\* The body of loadSpecies for a preset found: the presets of the catalog,
\* and the first of them without kernelSigma, without beta (an absent
\* kernelSigma reads as 0, an absent beta as the empty list) and without
\* both; the controls at their defaults and with every control moved.
PresetSamples ==
  {species[k] : k \in DOMAIN species}
  \cup {[species[1] EXCEPT !.kernelSigma = 0],
        [species[1] EXCEPT !.beta = <<>>],
        [species[1] EXCEPT !.kernelSigma = 0, !.beta = <<>>]}
ParamSamples ==
  {DefaultParams,
   [running |-> FALSE, speed |-> 2, dt |-> 50,
    R |-> 20, kernelSigma |-> 30, rings |-> 4,
    beta1 |-> 90, beta2 |-> 80, beta3 |-> 60, beta4 |-> 70,
    mu |-> 400, sigma |-> 90]}
PresetCalls ==
  {[NoProbe EXCEPT !.fn = "preset", !.preset = spec, !.old = old] :
     spec \in PresetSamples, old \in ParamSamples}

\* The calls tried.
Calls ==
  KernelCalls \cup GrowthCalls \cup IntegrateCalls \cup PassCalls
  \cup PresetCalls

InitFn == Constructed /\ probe \in Calls

\* The variables of the component.
componentVars ==
  <<buf, targets, params, uniforms, weights, shown, isInitialized, mounted,
    pc, i, initPc, data, timers, lookup, ticks, changes, fresh, frameStart,
    catalog, initMode, origin, thrown, usedU, disposed>>

\* The call probe is made, with the result r.
Returns(r) ==
  /\ ~probe.done
  /\ probe' = [probe EXCEPT !.out = r, !.done = TRUE]
  /\ UNCHANGED componentVars

ApplyKernel ==
  /\ probe.fn = "kernel"
  /\ Returns(kernel(probe.x, probe.U))

ApplyGrowth ==
  /\ probe.fn = "growth"
  /\ Returns(growth(probe.x, probe.U))

ApplyIntegrate ==
  /\ probe.fn = "integrate"
  /\ Returns(Integrate(probe.x, probe.y, probe.U))

ApplyPass ==
  /\ probe.fn = "pass"
  /\ Returns(Contribution(probe.x, probe.y, probe.U))

\* setParams({...}) of loadSpecies for the preset probe.preset, the
\* controls being probe.old before the call and probe.new after it.
ApplyPreset ==
  /\ probe.fn = "preset"
  /\ ~probe.done
  /\ probe' = [probe EXCEPT
                 !.new = SetParamsTo(probe.old, PresetValues(probe.preset)),
                 !.done = TRUE]
  /\ UNCHANGED componentVars

NextFn ==
  \/ ApplyKernel
  \/ ApplyPreset
  \/ ApplyPass
  \/ ApplyGrowth
  \/ ApplyIntegrate

SpecFn == InitFn /\ [][NextFn]_vars

\* ------------------------------------------ the shader and initField alone
\* Texel values the program never writes: below 0, above 1, the infinities
\* and NaN.
Infinity == 2147483647
AnomalySamples == {-500, 2000, Infinity, -Infinity, NaN}

\* Fields of any content: a ground value, one cell with an anomaly and one
\* cell with another value, anomalous or not.
AnyFields ==
  {[c \in Cells |-> IF c = a THEN v ELSE IF c = b THEN w ELSE g] :
     a \in Cells, b \in Cells, v \in AnomalySamples \cup {0},
     w \in {NaN, 2000, 700}, g \in {0, 150}}

\* Fields with an anomaly in every cell.
AnomalousFields == {[c \in Cells |-> v] : v \in AnomalySamples}

\* The controls with the one ring in use weighted 0, mu at its least and
\* sigma at its most.
ZeroWeightParams ==
  [DefaultParams EXCEPT !.beta1 = 0, !.mu = 10, !.sigma = 100]

\* The h x w pattern whose cell (py, px) holds 100 py + 10 px + k.
Grid(h, w, k) ==
  [py \in 1..h |-> [px \in 1..w |-> 100 * py + 10 * px + k]]

\* Patterns of any shape: rectangular ones up to one row and one column
\* more than the field (rows may be empty), those with one row a cell
\* shorter or a cell longer, and the pattern with no rows.
RectPatterns ==
  {Grid(h, w, k) :
     h \in 1..(resolution + 1), w \in 0..(resolution + 1), k \in 0..3}
RaggedOf(pat) ==
  UNION {{[pat EXCEPT ![r] = SubSeq(pat[r], 1, Len(pat[r]) - 1)],
          [pat EXCEPT ![r] = Append(pat[r], 5)]} : r \in 2..Len(pat)}
RaggedPatterns == UNION {RaggedOf(pat) \ {pat} : pat \in RectPatterns}
AnyPatterns == RectPatterns \cup RaggedPatterns \cup {<<>>}

\* The component with its targets holding any field and the controls at
\* their defaults or at a preset, or not yet initialised.
InitAny ==
  /\ \E field \in AnyFields \cup AnomalousFields \cup {ZeroField} :
       /\ buf = [b \in Buffers |-> field]
       /\ origin = field
       /\ isInitialized = (field # ZeroField)
  /\ targets = [read |-> "A", write |-> "B"]
  /\ params \in {DefaultParams, ZeroWeightParams,
                 SetParamsTo(DefaultParams, PresetValues(species[6]))}
  /\ uniforms = DefaultUniforms
  /\ weights = Weights(DefaultUniforms)
  /\ shown = "null"
  /\ mounted = TRUE
  /\ pc = "idle" /\ i = 0
  /\ initPc = "idle" /\ data = ZeroField
  /\ timers = 0
  /\ lookup = NoLookup
  /\ ticks = 0 /\ changes = 0
  /\ fresh = Buffers
  /\ frameStart = ZeroField
  /\ catalog = species
  /\ initMode = "none"
  /\ thrown = FALSE
  /\ usedU = {}
  /\ disposed = FALSE
  /\ probe = NoProbe

\* initField('species', spec) on the component not yet initialised, for a
\* pattern of any shape.
InitAnyPattern ==
  /\ ~isInitialized
  /\ \E pat \in AnyPatterns : InitSpeciesWith(pat)

\* The mode strings tried: those the branches of initField name, 'species'
\* being called without a spec, and strings they do not name.
AnyModes == {"seed", "species", "clear", "random", "reset", "Clear", ""}

\* initField(mode) without a spec.
InitModeOf(mode, rnd) ==
  /\ Idle /\ mounted /\ ~disposed
  /\ initField(mode, NoSpec, rnd)
  /\ UNCHANGED <<targets, params, uniforms, weights, shown, isInitialized,
                 mounted, frameVars, timers, lookup, changes, catalog, probe,
                 disposed>>

\* initField(mode) on the component not yet initialised, for any mode.
InitAnyMode ==
  /\ ~isInitialized
  /\ \E mode \in AnyModes, rnd \in RandomDraws : InitModeOf(mode, rnd)

NextAny ==
  \/ InitAnyPattern
  \/ InitAnyMode
  \/ InitRenderWrite
  \/ FrameBegin
  \/ FrameSkip
  \/ FrameRender
  \/ FrameSwap
  \/ FrameDisplay

SpecAny == InitAny /\ [][NextAny]_vars

\* The field moved by (a, b) on the torus: cell (x, y) goes to
\* ((x + a) mod W, (y + b) mod H).
Shift(field, a, b) ==
  [c \in Cells |->
     field[<<(c[1] - a) % resolution, (c[2] - b) % resolution>>]]

\* The blobs of a field: the cells that are not 0, grouped by adjacency
\* inside the field bounds.
Lit(field) == {c \in Cells : field[c] # 0}
Adjacent(c, d) == Abs(c[1] - d[1]) + Abs(c[2] - d[2]) = 1
RECURSIVE Grow(_, _)
Grow(S, L) ==
  LET T == S \cup {d \in L : \E c \in S : Adjacent(c, d)}
  IN  IF T = S THEN S ELSE Grow(T, L)
Blobs(field) == {Grow({c}, Lit(field)) : c \in Lit(field)}
BlobCount(field) == Cardinality(Blobs(field))

\* The cell at (cx, cy) = (resolution / 2, resolution / 2).
Centre == <<resolution \div 2, resolution \div 2>>

\* ----------------------------------------------------------- properties
\* C1: in every state reached by initialising the field in any mode and
\* running any number of ticks with any values the controls allow, every
\* cell of the current buffer lies in [0, 1].
CurrentCellsInUnitRange ==
  \A c \in Cells : buf[targets.read][c] >= 0 /\ buf[targets.read][c] <= Unit

\* Ticks have run and left a cell strictly between 0 and 1 next to a cell
\* at 0.
CurrentCellsInUnitRangeWitness ==
  /\ ticks > 0 /\ pc = "idle"
  /\ \E c \in Cells : buf[targets.read][c] > 0 /\ buf[targets.read][c] < Unit
  /\ \E c \in Cells : buf[targets.read][c] = 0

\* C2: there are exactly two field buffers, targets.read and targets.write
\* always name two different ones, and every change of the roles exchanges
\* them in one step.
TwoBuffersSwapped ==
  /\ [](/\ targets.read # targets.write
        /\ {targets.read, targets.write} = Buffers
        /\ DOMAIN buf = Buffers)
  /\ [][targets' # targets =>
          /\ targets'.read = targets.write
          /\ targets'.write = targets.read]_vars

\* A swap has been made: the roles are the reverse of the initial ones.
TwoBuffersSwappedWitness ==
  pc = "display" /\ i = 1 /\ targets.read = "B" /\ targets.write = "A"

\* C3: every tick reads only the buffer written by the tick before it (or by
\* the last initialisation) and writes only the other buffer, and a tick
\* starts only after the swap of the tick before it.
TickReadsLastWritten ==
  [][pc = "render" /\ pc' = "swap" =>
       /\ uniforms'.uState \in fresh
       /\ uniforms'.uState = targets.read
       /\ uniforms'.uState # targets.write
       /\ \A b \in Buffers \ {targets.write} : buf'[b] = buf[b]
       /\ fresh' = {targets.write}]_vars

\* The second tick of a frame has read what the first tick wrote.
TickReadsLastWrittenWitness ==
  /\ pc = "swap" /\ i = 1
  /\ uniforms.uState = "B" /\ fresh = {"A"}
  /\ buf["A"] # buf["B"]

\* C4: every call of initField, in every mode, leaves targets.read and
\* targets.write with the same contents cell for cell and sets
\* isInitialized.
InitFillsBothBuffers ==
  [][initPc # "idle" /\ initPc' = "idle" =>
       /\ \A c \in Cells : buf'[targets'.read][c] = buf'[targets'.write][c]
       /\ buf'[targets'.read] = data
       /\ isInitialized']_vars

\* initField has just returned over a field that ticks had changed, and the
\* new field is not the empty one.
InitFillsBothBuffersWitness ==
  /\ initPc = "idle" /\ isInitialized /\ ticks = 0 /\ shown # "null"
  /\ buf[targets.read] = buf[targets.write]
  /\ buf[targets.read] # ZeroField

\* C5: a frame callback that finds running false runs no tick and no swap:
\* through all of its steps the contents of both buffers and the roles stay
\* as they were.
PausedFrameFreezes ==
  [][(pc # "idle" \/ pc' # "idle") /\ ~params.running =>
       /\ pc' \notin {"render", "swap"}
       /\ buf' = buf
       /\ targets' = targets
       /\ ticks' = ticks]_vars

\* A frame callback is past its loop with running false, over a field that
\* is not empty.
PausedFrameFreezesWitness ==
  /\ pc = "display" /\ ~params.running /\ isInitialized
  /\ buf[targets.read] # ZeroField

\* The texels a render leaves in its target: the field, computed once and
\* stored cell by cell.
Rendered(field) ==
  LET texels == [t \in 1..(resolution * resolution) |->
                   field[<<TexelColumn(t), TexelRow(t)>>]] \o <<>>
  IN  [c \in Cells |-> texels[c[2] * resolution + c[1] + 1]]

\* StepWith applied n times, each render reading the texels of the one
\* before.
RECURSIVE Ticks(_, _, _, _)
Ticks(field, U, W, n) ==
  IF n = 0 THEN field
  ELSE Rendered(StepWith(Ticks(field, U, W, n - 1), U, W))

\* C6: a frame callback on an initialised field with running true and
\* speed s runs exactly s ticks, each followed by its swap: past the loop
\* the current buffer is the s-fold tick of the current buffer at the start
\* of the frame.
FrameRunsSpeedTicks ==
  /\ pc = "display" /\ params.running =>
       /\ i = params.speed
       /\ buf[targets.read] = Ticks(frameStart, uniforms, weights, params.speed)
  /\ pc = "render" => i < params.speed /\ params.running
  /\ pc \in {"render", "swap"} =>
       buf[targets.read] = Ticks(frameStart, uniforms, weights, i)

\* A frame with speed 2 is past its loop, and its two ticks changed the
\* field twice.
FrameRunsSpeedTicksWitness ==
  /\ pc = "display" /\ params.running /\ params.speed = 2 /\ i = 2
  /\ buf[targets.read] # frameStart
  /\ buf[targets.read] # buf[targets.write]

\* C7: dt, R, mu, sigma, kernelSigma, beta and the ring count a tick uses are
\* read from the controls once, before the first tick of the frame, and
\* neither they nor the controls change until the frame callback returns.
ParamsFixedDuringFrame ==
  [][/\ pc = "idle" /\ pc' # "idle" =>
          TickUniforms(uniforms') =
            <<params.dt, params.R, params.mu, params.sigma,
              params.kernelSigma,
              <<params.beta1, params.beta2, params.beta3, params.beta4>>,
              params.rings>>
     /\ pc # "idle" =>
          /\ TickUniforms(uniforms') = TickUniforms(uniforms)
          /\ params' = params]_vars

\* A tick has run with a radius and a ring count other than the initial
\* ones.
ParamsFixedDuringFrameWitness ==
  /\ pc = "swap"
  /\ uniforms.uR # DefaultUniforms.uR
  /\ uniforms.uRingCount # DefaultUniforms.uRingCount
  /\ uniforms.uR = params.R

\* C8: initField never runs while a frame callback is between its first and
\* its last step, whichever of the buttons or the timer of loadSpecies
\* called it: no tick is in progress while a buffer is being initialised.
InitNeverDuringFrame == ~(pc # "idle" /\ initPc # "idle")

\* The initField called by the timer of loadSpecies is half done over a
\* field ticks had changed: targets.read is new, targets.write still old.
InitNeverDuringFrameWitness ==
  /\ initPc = "write" /\ pc = "idle" /\ isInitialized
  /\ lookup > 0 /\ timers = 0 /\ shown # "null"
  /\ buf[targets.read] # buf[targets.write]

\* C9: loadSpecies with a name that is not in the catalog changes no
\* control, schedules no initField and leaves both buffers as they are.
UnknownSpeciesIgnored ==
  [][LoadSpeciesOf(UnknownName) =>
       /\ lookup' = 0
       /\ params' = params
       /\ timers' = timers
       /\ buf' = buf /\ targets' = targets
       /\ initPc' = "idle"]_vars

\* loadSpecies has found no preset for its name, over a field ticks had
\* changed.
UnknownSpeciesIgnoredWitness ==
  /\ lookup = 0 /\ timers = 0 /\ params = DefaultParams
  /\ ticks > 0 /\ buf[targets.read] # ZeroField

\* The inputs of Overrides that are 0 on the radius, a width or the ring
\* count.
InvalidOverrides ==
  {o \in Overrides :
     o[1] \in {"R", "sigma", "kernelSigma", "rings"} /\ o[2] <= 0}

\* C10 as stated: an update with sigma <= 0, kernelSigma <= 0, R <= 0 or no
\* ring is rejected, and the configuration before it stays in force.
InvalidUpdateRejected ==
  [][\A o \in InvalidOverrides :
       SetParamOf(o[1], o[2]) => params' = params]_vars

\* C10, amended: no tick is computed with sigma <= 0, kernelSigma <= 0,
\* R <= 0 or no ring, but the update is not rejected: the control takes the
\* least value of its range in place of the input.
InvalidUpdateClamped ==
  /\ [](pc \in {"render", "swap"} =>
          /\ uniforms.uSigma > 0 /\ uniforms.uKernelSigma > 0
          /\ uniforms.uR > 0 /\ uniforms.uRingCount > 0)
  /\ [][\A o \in InvalidOverrides :
          SetParamOf(o[1], o[2]) =>
            /\ params'[o[1]] = Controls[o[1]].min
            /\ \A key \in DOMAIN params \ {o[1]} :
                 params'[key] = params[key]]_vars

\* A tick has run with the least sigma of the control, which only an input
\* below the range leaves there.
InvalidUpdateClampedWitness ==
  /\ pc = "swap"
  /\ uniforms.uSigma = Controls.sigma.min
  /\ params.sigma # DefaultParams.sigma

\* C11 as stated: in a tick a sampled neighbour value outside [0,1] (or
\* NaN/Inf) counts as the value 0: the local potential u of the cell is the
\* u of the same field with that neighbour's value replaced by 0.
AnomalousNeighbourAsZero ==
  pc = "swap" =>
    \A c \in Cells, t \in DOMAIN weights :
      LET field == buf[targets.read]
          n == TexelOf(c[1], c[2], t)
      IN  ~InRange(field[n]) =>
            Potential(field, c[1], c[2], weights)
              = Potential([field EXCEPT ![n] = 0], c[1], c[2], weights)

\* C11: in a tick a sampled neighbour value outside [0,1] (or NaN/Inf) is
\* skipped, adding to neither valueSum nor kernelSum: the local potential u
\* of the cell, and the cell the tick writes, are those of the same field
\* under the kernel with that neighbour's weight removed.
AnomalousNeighbourSkipped ==
  pc = "swap" =>
    \A c \in Cells, t \in DOMAIN weights :
      LET field == buf[targets.read]
          without == [weights EXCEPT ![t] = 0]
      IN  ~InRange(field[TexelOf(c[1], c[2], t)]) =>
            /\ Potential(field, c[1], c[2], weights)
                 = Potential(field, c[1], c[2], without)
            /\ buf[targets.write][c]
                 = main(field, c[1], c[2], uniforms, without)

\* A tick has run on a field with an anomalous neighbour of positive kernel
\* weight whose cell has a positive potential, which replacing the
\* neighbour by 0 would lower.
AnomalousNeighbourSkippedWitness ==
  /\ pc = "swap"
  /\ \E c \in Cells, t \in DOMAIN weights :
       LET field == buf[targets.read]
           n == TexelOf(c[1], c[2], t)
       IN  /\ ~InRange(field[n])
           /\ weights[t] > 0
           /\ Potential(field, c[1], c[2], weights) > 0
           /\ Potential([field EXCEPT ![n] = 0], c[1], c[2], weights)
                < Potential(field, c[1], c[2], weights)

\* C12: numeric anomalies are never propagated: on a current buffer holding
\* any out-of-range, NaN or Inf values one tick completes and raises
\* nothing, an anomalous current cell is integrated as if its value were 0
\* (it becomes clamp(0 + dt * growth(u))), and every cell of the buffer
\* written lies in [0,1].
AnomaliesNotPropagated ==
  [][pc = "render" =>
       /\ pc' = "swap"
       /\ thrown' = thrown
       /\ \A c \in Cells :
            /\ buf'[targets.write][c] \in 0..Unit
            /\ ~InRange(buf[targets.read][c]) =>
                 buf'[targets.write][c]
                   = Max(0, Min(Unit,
                       0 + (uniforms'.uDt
                              * growth(Potential(buf[targets.read],
                                                 c[1], c[2], weights),
                                       uniforms')) \div Cent))]_vars

\* A tick has run on a buffer with an anomalous cell, which it integrated
\* from 0 to a positive value.
AnomaliesNotPropagatedWitness ==
  /\ pc = "swap"
  /\ \E c \in Cells :
       /\ ~InRange(buf[targets.read][c])
       /\ buf[targets.write][c] > 0
       /\ buf[targets.write][c] < Unit

\* C13: the tick commutes with translation on the torus: for the field F a
\* tick has read and every shift (a, b), the tick of F shifted by (a, b)
\* modulo (W, H) is the buffer the tick wrote, shifted by (a, b).
TickCommutesWithShift ==
  pc = "swap" =>
    \A a \in 0..(resolution - 1), b \in 0..(resolution - 1) :
      StepWith(Shift(buf[targets.read], a, b), uniforms, weights)
        = Shift(buf[targets.write], a, b)

\* A tick has read a field and written one that some shift moves, and the
\* written field differs from the read one.
TickCommutesWithShiftWitness ==
  /\ pc = "swap"
  /\ buf[targets.write] # buf[targets.read]
  /\ \E a \in 0..(resolution - 1), b \in 0..(resolution - 1) :
       /\ Shift(buf[targets.read], a, b) # buf[targets.read]
       /\ Shift(buf[targets.write], a, b) # buf[targets.write]

\* C14: after initField('clear') every cell of both buffers is 0, and with
\* mu > 0 and small sigma (2 sigma <= mu) in every tick since, the all-zero
\* field is a fixed point of the tick: after any number of ticks every cell
\* of both buffers is still exactly 0.
ClearFieldStaysZero ==
  (/\ initMode = "clear"
   /\ initPc = "idle"
   /\ \A T \in usedU : T[3] > 0 /\ 2 * T[4] <= T[3])
    => \A b \in Buffers : buf[b] = ZeroField

\* The field was cleared and MaxTicks ticks have run on it since, with
\* mu > 0 and 2 sigma <= mu.
ClearFieldStaysZeroWitness ==
  /\ initMode = "clear"
  /\ initPc = "idle" /\ pc = "idle"
  /\ ticks = MaxTicks
  /\ usedU # {}
  /\ \A T \in usedU : T[3] > 0 /\ 2 * T[4] <= T[3]
  /\ \A b \in Buffers : buf[b] = ZeroField

\* C15: the tick is deterministic: any run that starts from an explicit
\* pattern and executes N ticks, all with the same parameters, ends with
\* the current buffer that is the N-fold tick of the stamped pattern under
\* these parameters, however the ticks are spread over frames; so two such
\* runs end with identical current buffers.
RunIsFunctionOfPatternAndParams ==
  (/\ initMode = "species"
   /\ initPc = "idle"
   /\ pc # "swap"
   /\ usedU \subseteq {TickUniforms(uniforms)})
    => buf[targets.read] = Ticks(origin, uniforms, weights, ticks)

\* MaxTicks ticks have run on a stamped pattern with the same parameters,
\* and each of them changed the field.
RunIsFunctionOfPatternAndParamsWitness ==
  /\ initMode = "species"
  /\ initPc = "idle" /\ pc = "idle"
  /\ ticks = MaxTicks
  /\ usedU = {TickUniforms(uniforms)}
  /\ buf[targets.read] # origin
  /\ buf[targets.read] # Ticks(origin, uniforms, weights, ticks - 1)

PatternStampedCentred ==
  [][initPc = "idle" /\ initPc' = "write" /\ initMode' = "species" =>
       \A pat \in RectPatterns :
         InitSpeciesWith(pat) =>
           LET h == Len(pat)
               w == Len(pat[1])
               ox == (resolution - w) \div 2
               oy == (resolution - h) \div 2
               Inside == {q \in (0..(h - 1)) \X (0..(w - 1)) :
                            <<ox + q[2], oy + q[1]>> \in Cells}
           IN  /\ \A q \in Inside :
                    data'[<<ox + q[2], oy + q[1]>>] = pat[q[1] + 1][q[2] + 1]
               /\ \A c \in Cells :
                    (\A q \in Inside : c # <<ox + q[2], oy + q[1]>>)
                      => data'[c] = 0
               /\ buf'[targets.read] = data']_vars

\* A pattern one row and one column larger than the field has been stamped:
\* the field holds its rows and columns from the second on, the first row
\* and column being dropped.
PatternStampedCentredWitness ==
  /\ initPc = "write"
  /\ initMode = "species"
  /\ \A c \in Cells :
       data[c] = Grid(resolution + 1, resolution + 1, 0)[c[2] + 2][c[1] + 2]

\* C18 as stated: initialising with a malformed explicit pattern (no rows,
\* an empty first row, rows of unequal length) or an oversized one never
\* fails: initField completes, leaves both buffers identical and leaves
\* every cell holding a value in [0,1].
MalformedPatternNeverFails ==
  [][/\ (initPc = "idle" /\ (initPc' = "write" \/ thrown' # thrown)) =>
          /\ ~thrown'
          /\ initPc' = "write"
          /\ \A c \in Cells : data'[c] \in 0..Unit
     /\ (initPc = "write" /\ initPc' = "idle") =>
          /\ buf'["A"] = buf'["B"]
          /\ \A b \in Buffers, c \in Cells : buf'[b][c] \in 0..Unit]_vars

\* initField has thrown on a pattern and left the component uninitialised,
\* or has completed on a pattern and left a cell that is no value of [0,1]
\* in both buffers.
MalformedPatternFailsWitness ==
  \/ thrown /\ ~isInitialized /\ initPc = "idle"
  \/ /\ initMode = "species" /\ initPc = "idle" /\ ticks = 0
     /\ \E c \in Cells : buf["A"][c] = NaN /\ buf["B"][c] = NaN

\* C19: the species catalog is the same ordered list in every reachable
\* state, whatever loads, overrides, initialisations and ticks have run: it
\* is the list built at construction, it is not empty, and the default
\* selection 'Orbium' is the name of one of its entries.
CatalogFixed ==
  /\ catalog = species
  /\ Len(catalog) >= 1
  /\ \E k \in DOMAIN catalog : catalog[k].name = DefaultPreset

\* A preset has been loaded, its timer has initialised the field and ticks
\* have run on it; the default selection is still found in the list.
CatalogFixedWitness ==
  /\ lookup >= 1
  /\ timers = 0
  /\ ticks > 0
  /\ changes = MaxChanges
  /\ pc = "idle"
  /\ Find(catalog, DefaultPreset) >= 1

\* C20: whenever the presentation draws after a frame callback has run on
\* an initialised field, the texture it samples is the current (read)
\* buffer and never the write buffer; and between two frames no operation
\* changes which buffer is current.
PresentationReadsCurrent ==
  /\ [](pc = "idle" /\ shown # "null" =>
          shown = targets.read /\ shown # targets.write)
  /\ [][pc = "idle" /\ pc' = "idle" => targets' = targets]_vars

\* After a frame with one tick the presentation samples target B, which
\* has become the current buffer, and a control event or an initialisation
\* has run since the frame without moving it.
PresentationReadsCurrentWitness ==
  /\ pc = "idle"
  /\ shown = "B"
  /\ targets.read = "B" /\ targets.write = "A"
  /\ (changes > 0 \/ ticks = 0)

\* C21: for every ring count in 1..4, every ring-weight vector with entries
\* >= 0 and every kernelSigma, kernel(r) = 0 for all normalised radii
\* r >= 1 and kernel(r) >= 0 for all r.
KernelZeroBeyondOneNonNegative ==
  (/\ probe.fn = "kernel" /\ probe.done
   /\ \A k \in 1..4 : probe.U.uBeta[k] >= 0)
    => /\ probe.x >= Unit => probe.out = 0
       /\ probe.out >= 0

\* kernel has returned 0 at r = 1 for uniforms with which it is positive
\* just below 1.
KernelZeroBeyondOneNonNegativeWitness ==
  /\ probe.fn = "kernel" /\ probe.done
  /\ \A k \in 1..4 : probe.U.uBeta[k] >= 0
  /\ probe.x = Unit
  /\ probe.out = 0
  /\ Ring(Unit, probe.U, 0) + Ring(Unit, probe.U, 1) > 0

\* C22: growth(u) lies in [-1, 1] for every u, mu and sigma and is exactly
\* 1 when u = mu; and one tick changes a cell whose current value is in
\* [0, 1] by at most dt in absolute value.
GrowthBounded ==
  /\ (probe.fn = "growth" /\ probe.done) =>
       /\ probe.out >= -Unit /\ probe.out <= Unit
       /\ probe.x = probe.U.uMu => probe.out = Unit
  /\ (probe.fn = "integrate" /\ probe.done) =>
       Abs(probe.out - probe.x) * Cent <= probe.U.uDt * Unit

\* The integration step has moved a cell by exactly dt, the potential being
\* mu where growth is 1.
GrowthBoundedWitness ==
  /\ probe.fn = "integrate" /\ probe.done
  /\ probe.y = probe.U.uMu
  /\ growth(probe.y, probe.U) = Unit
  /\ (probe.out - probe.x) * Cent = probe.U.uDt * Unit

\* C23: every successful species change is eventually followed by a
\* reinitialisation that overwrites every cell of both buffers: whenever k
\* timers of loadSpecies are pending, a state follows in which one of them
\* has run and both buffers hold the data initField has drawn, which does
\* not depend on the field from before the species change.
ReinitAfterLoad ==
  \A k \in 1..MaxChanges :
    (timers = k) ~>
      (/\ timers = k - 1
       /\ initPc = "idle" /\ ticks = 0
       /\ initMode = "random"
       /\ \E rnd \in RandomDraws : origin = RandomData(rnd)
       /\ \A b \in Buffers : buf[b] = origin)

\* A preset was loaded over a field that frames had shown, its timer has
\* run, and both buffers hold the new data.
ReinitAfterLoadWitness ==
  /\ lookup >= 1 /\ timers = 0
  /\ shown # "null"
  /\ initPc = "idle" /\ ticks = 0
  /\ initMode = "random"
  /\ \A b \in Buffers : buf[b] = origin

PotentialGuarded ==
  pc = "swap" =>
    \A c \in Cells :
      LET field == buf[targets.read]
          valueSum == ValueSum(field, c[1], c[2], weights)
          kernelSum == KernelSum(field, c[1], c[2], weights)
          current == IF InRange(field[c]) THEN field[c] ELSE 0
          moved(u) ==
            clamp(current + (uniforms.uDt * growth(u, uniforms)) \div Cent,
                  0, Unit)
      IN  /\ kernelSum * 10 > 1 =>
               buf[targets.write][c] = moved(valueSum \div kernelSum)
          /\ kernelSum * 10 <= 1 => buf[targets.write][c] = moved(0)

\* A tick with the ring weight 0 has raised a cell by dt * growth(0), or a
\* tick over a field anomalous in every cell has been made.
PotentialGuardedWitness ==
  /\ pc = "swap"
  /\ \/ /\ uniforms.uBeta[1] = 0
        /\ \E c \in Cells :
             /\ KernelSum(buf[targets.read], c[1], c[2], weights) = 0
             /\ buf[targets.read][c] = 150
             /\ buf[targets.write][c] > 150
     \/ /\ uniforms.uBeta[1] > 0
        /\ \A c \in Cells : ~InRange(buf[targets.read][c])
        /\ \A c \in Cells :
             KernelSum(buf[targets.read], c[1], c[2], weights) = 0

\* C26: while isInitialized is false no tick and no swap is made and the
\* frame callback leaves the buffers, the target roles and the uniforms as
\* they are (the buffers change by the renders of initField only); once
\* isInitialized is true it is never set back to false.
NoTickBeforeReady ==
  /\ [](~isInitialized =>
         /\ pc = "idle" /\ ticks = 0 /\ usedU = {}
         /\ targets = [read |-> "A", write |-> "B"]
         /\ uniforms = DefaultUniforms
         /\ shown = "null")
  /\ [][/\ isInitialized => isInitialized'
        /\ ~isInitialized =>
             /\ uniforms' = uniforms /\ targets' = targets /\ pc' = pc
             /\ buf' # buf => initPc' # initPc]_vars

\* initField is at work again after a frame has been shown, and
\* isInitialized is still true.
NoTickBeforeReadyWitness ==
  /\ isInitialized
  /\ initPc = "write"
  /\ shown # "null"
  /\ ticks = 0

\* C27 as stated: once the cleanup has disposed both targets, no step of
\* an initialisation and no tick renders into a buffer, in any interleaving
\* of loads, timers, frames and the unmount.
NoRenderAfterTeardown ==
  [][disposed => /\ buf' = buf /\ fresh' = fresh
                 /\ initPc' = initPc /\ pc' = pc]_vars

\* The timer of a load made before the unmount has run initField: the
\* first of its renders has gone into targets.read, which is disposed.
RenderAfterTeardownWitness ==
  /\ disposed
  /\ initPc = "write"
  /\ initMode = "random"
  /\ buf[targets.read] = data

\* C28: a load is two events.  The event that calls loadSpecies sets the
\* parameters to the preset and schedules the timer, and leaves the field
\* as it is; the timer callback, a later event, starts initField and leaves
\* the parameters as they are.  Frames run between the two: while the
\* timer is pending the frame callback can still start, so a tick can step
\* the field of before the load with the parameters of after it.
LoadIsTwoEvents ==
  /\ [](/\ timers > 0 /\ Idle /\ isInitialized /\ ~disposed
         /\ (params.running => ticks + params.speed <= MaxTicks)
         => ENABLED FrameBegin)
  /\ [][/\ timers' > timers =>
             /\ lookup' >= 1
             /\ params' = SetParamsTo(params, PresetValues(catalog[lookup']))
             /\ buf' = buf /\ initPc' = initPc /\ origin' = origin
             /\ ticks' = ticks /\ uniforms' = uniforms
        /\ timers' < timers =>
             /\ params' = params /\ uniforms' = uniforms
             /\ initPc = "idle" /\ initPc' = "write"
             /\ buf'[targets.read] = data']_vars

\* A tick has stepped the field of before the load with the uniforms of
\* the preset loaded, the timer of the load still pending.
LoadIsTwoEventsWitness ==
  /\ pc = "swap" /\ ticks >= 1
  /\ timers > 0 /\ lookup >= 1
  /\ TickUniforms(uniforms) # TickUniforms(DefaultUniforms)
  /\ TickUniforms(uniforms)
       = TickUniforms(UpdateUniforms(uniforms,
           SetParamsTo(DefaultParams, PresetValues(catalog[lookup]))))
  /\ \E rnd \in RandomDraws : origin = RandomData(rnd)
  /\ buf[targets.read] = frameStart
  /\ buf[targets.write] = StepOf(frameStart, uniforms)

\* C29: initField called with 'species' and no pattern, or with a mode
\* that is none of 'clear', 'seed' and 'species', fills the random blob:
\* the cells of the one centred disc of radius 60 hold values in
\* [0.25, 0.75) and every other cell holds 0.
OtherModesAreRandomBlob ==
  [][initPc' = "write" /\ initPc = "idle" =>
       \A mode \in AnyModes \ {"clear", "seed"}, rnd \in RandomDraws :
         InitModeOf(mode, rnd) =>
           /\ initMode' = mode
           /\ \A c \in Cells :
                IF c \in Disc(Scaled(RandomR))
                THEN data'[c] >= 250 /\ data'[c] < 750
                ELSE data'[c] = 0
           /\ BlobCount(data') = 1
           /\ buf'[targets.read] = data']_vars

\* initField('species') without a pattern has filled the disc with the
\* greatest random value.
OtherModesAreRandomBlobWitness ==
  /\ initPc = "write"
  /\ initMode = "species"
  /\ Lit(data) = Disc(Scaled(RandomR))
  /\ \A c \in Disc(Scaled(RandomR)) : data[c] = 749

\* C30: loadSpecies for a preset found sets R, mu and sigma to the
\* preset's values, kernelSigma to the preset's (0.15 when it has none),
\* rings to the length of the preset's beta list (1 when absent or empty),
\* beta1..beta4 to the list padded with 0 (beta1 = 1 when absent), and
\* leaves dt, speed, running and every other control as it was.
PresetOverwritesKernelAndGrowth ==
  (probe.fn = "preset" /\ probe.done) =>
    LET spec == probe.preset
        old == probe.old
        new == probe.new
        n == Len(spec.beta)
        padded(k) == IF k <= n THEN spec.beta[k] ELSE 0
    IN  /\ new.R = spec.R /\ new.mu = spec.mu /\ new.sigma = spec.sigma
        /\ new.kernelSigma
             = IF spec.kernelSigma = 0 THEN 15 ELSE spec.kernelSigma
        /\ new.rings = IF n = 0 THEN 1 ELSE n
        /\ new.beta1 = IF n = 0 THEN 100 ELSE spec.beta[1]
        /\ new.beta2 = padded(2) /\ new.beta3 = padded(3)
        /\ new.beta4 = padded(4)
        /\ DOMAIN new = DOMAIN old
        /\ \A key \in DOMAIN old \
                      {"R", "mu", "sigma", "kernelSigma", "rings",
                       "beta1", "beta2", "beta3", "beta4"} :
             new[key] = old[key]

\* A preset of three rings was loaded over controls with four rings in use
\* and dt, speed and running moved from their defaults.
PresetOverwritesKernelAndGrowthWitness ==
  /\ probe.fn = "preset" /\ probe.done
  /\ Len(probe.preset.beta) = 3
  /\ probe.old.beta4 = 70 /\ probe.new.beta4 = 0
  /\ probe.new.rings = 3
  /\ probe.new.dt = 50 /\ probe.new.speed = 2 /\ ~probe.new.running

=============================================================================
